---------------------------- MODULE Spec2Model ----------------------------
(***************************************************************************)
(* Model of PyPay: the AliPay (RSA) and WxPay (HMAC) signing/verification  *)
(* layer and the AES helper of pypay/security.py.                          *)
(*                                                                         *)
(* Text is a sequence of one-character strings.  A Python value is a       *)
(* record [t, s, items]: t is the Python type, s the characters of a       *)
(* str / bytes / int, items the (key, value) pairs of a dict.  A dict      *)
(* (the caller's parameter mapping) is the sequence of its (key, value)    *)
(* pairs in insertion order, keys unique.                                  *)
(***************************************************************************)
EXTENDS Integers, Sequences, FiniteSets, TLC

VARIABLES pay_config, ali, wx, holds, data, raw, plain, op, arg, ret, calls

vars == <<pay_config, ali, wx, holds, data, raw, plain, op, arg, ret, calls>>

(***************************************************************************)
(* Bounds of the model.                                                    *)
(***************************************************************************)
MaxFields == 2

MaxRaw == 5

MaxPlain == 2

MaxParams == 2

(***************************************************************************)
(* Program constants.                                                      *)
(***************************************************************************)
PadWidth == 64

AesBlockSize == 16

(***************************************************************************)
(* Characters and their code points (str comparison, utf-8, quote).        *)
(***************************************************************************)
Lower == <<"a","b","c","d","e","f","g","h","i","j","k","l","m",
           "n","o","p","q","r","s","t","u","v","w","x","y","z">>

Upper == <<"A","B","C","D","E","F","G","H","I","J","K","L","M",
           "N","O","P","Q","R","S","T","U","V","W","X","Y","Z">>

Digits == <<"0","1","2","3","4","5","6","7","8","9">>

IndexOf(c, s) == CHOOSE i \in 1..Len(s) : s[i] = c

InSeq(c, s) == \E i \in 1..Len(s) : s[i] = c

Ord(c) ==
  IF InSeq(c, Lower) THEN 96 + IndexOf(c, Lower)
  ELSE IF InSeq(c, Upper) THEN 64 + IndexOf(c, Upper)
  ELSE IF InSeq(c, Digits) THEN 47 + IndexOf(c, Digits)
  ELSE CASE c = "\t" -> 9
         [] c = " " -> 32
         [] c = "\"" -> 34
         [] c = "#" -> 35
         [] c = "&" -> 38
         [] c = "'" -> 39
         [] c = "+" -> 43
         [] c = "," -> 44
         [] c = "-" -> 45
         [] c = "." -> 46
         [] c = "/" -> 47
         [] c = ":" -> 58
         [] c = "<" -> 60
         [] c = "=" -> 61
         [] c = ">" -> 62
         [] c = "_" -> 95
         [] c = "{" -> 123
         [] c = "}" -> 125
         [] c = "~" -> 126
         [] c = "é" -> 233
         [] OTHER -> 0

\* str < str : lexicographic comparison by code point
RECURSIVE StrLess(_, _)
StrLess(a, b) ==
  IF b = <<>> THEN FALSE
  ELSE IF a = <<>> THEN TRUE
  ELSE IF Ord(Head(a)) # Ord(Head(b)) THEN Ord(Head(a)) < Ord(Head(b))
  ELSE StrLess(Tail(a), Tail(b))

\* sep.join(parts)
RECURSIVE Join(_, _)
Join(sep, parts) ==
  IF parts = <<>> THEN <<>>
  ELSE IF Len(parts) = 1 THEN parts[1]
  ELSE parts[1] \o sep \o Join(sep, Tail(parts))

(***************************************************************************)
(* Python values.                                                          *)
(***************************************************************************)
StrV(s) == [t |-> "str", s |-> s, items |-> <<>>]

BytesV(s) == [t |-> "bytes", s |-> s, items |-> <<>>]

IntV(s) == [t |-> "int", s |-> s, items |-> <<>>]

DictV(items) == [t |-> "dict", s |-> <<>>, items |-> items]

ListV == [t |-> "list", s |-> <<>>, items |-> <<>>]

NoneV == [t |-> "none", s |-> <<>>, items |-> <<>>]

\* bool(value)
Truthy(v) ==
  CASE v.t = "str" -> v.s # <<>>
    [] v.t = "bytes" -> v.s # <<>>
    [] v.t = "int" -> v.s # <<"0">>
    [] v.t = "dict" -> v.items # <<>>
    [] v.t = "list" -> v.items # <<>>
    [] OTHER -> FALSE

\* json.dumps(value, separators=(',', ':'))
RECURSIVE JsonDumps(_)
JsonDumps(v) ==
  CASE v.t = "str" -> <<"\"">> \o v.s \o <<"\"">>
    [] v.t = "int" -> v.s
    [] v.t = "list" -> <<"[", "]">>
    [] v.t = "dict" ->
         <<"{">>
         \o Join(<<",">>, [i \in 1..Len(v.items) |->
                             <<"\"">> \o v.items[i][1] \o <<"\"", ":">>
                             \o JsonDumps(v.items[i][2])])
         \o <<"}">>
    [] OTHER -> <<"n", "u", "l", "l">>

\* repr(value)
RECURSIVE Repr(_)
Repr(v) ==
  CASE v.t = "str" -> <<"'">> \o v.s \o <<"'">>
    [] v.t = "int" -> v.s
    [] v.t = "bytes" -> <<"b", "'">> \o v.s \o <<"'">>
    [] v.t = "list" -> <<"[", "]">>
    [] v.t = "dict" ->
         <<"{">>
         \o Join(<<",", " ">>, [i \in 1..Len(v.items) |->
                                  <<"'">> \o v.items[i][1] \o <<"'", ":", " ">>
                                  \o Repr(v.items[i][2])])
         \o <<"}">>
    [] OTHER -> <<"N", "o", "n", "e">>

\* "{}".format(value)
Format(v) == IF v.t = "str" THEN v.s ELSE Repr(v)

(***************************************************************************)
(* dict operations: a dict is a sequence of <<key, value>> pairs.          *)
(***************************************************************************)
Keys(d) == [i \in 1..Len(d) |-> d[i][1]]

HasKey(d, k) == \E i \in 1..Len(d) : d[i][1] = k

\* d.get(k, None)
Get(d, k) == IF HasKey(d, k) THEN d[CHOOSE i \in 1..Len(d) : d[i][1] = k][2]
             ELSE NoneV

\* the dict after d.pop(k, None)
RECURSIVE Pop(_, _)
Pop(d, k) ==
  IF d = <<>> THEN <<>>
  ELSE IF d[1][1] = k THEN Tail(d)
  ELSE <<d[1]>> \o Pop(Tail(d), k)

\* sorted(keys)
RECURSIVE Sorted(_)
SortedMut(ks) == ks

Sorted(ks) ==
  IF ks = <<>> THEN <<>>
  ELSE LET m == CHOOSE i \in 1..Len(ks) :
                  \A j \in 1..Len(ks) : ~StrLess(ks[j], ks[i])
       IN <<ks[m]>> \o Sorted([i \in 1..(Len(ks) - 1) |->
                                 IF i < m THEN ks[i] ELSE ks[i + 1]])


(***************************************************************************)
(* Canonical parameter encoders.                                           *)
(***************************************************************************)
\* AliPay._ordered_data: the loop over the sorted keys
RECURSIVE AliOrderedLoop(_, _)
AliOrderedLoop(d, ks) ==
  IF ks = <<>> THEN <<>>
  ELSE LET key == Head(ks)
           value == Get(d, key)
           rest == AliOrderedLoop(d, Tail(ks))
       IN IF value.t = "bytes" THEN << <<key, StrV(value.s)>> >> \o rest
          ELSE IF value.t = "dict"
            THEN << <<key, StrV(JsonDumps(value))>> >> \o rest
          ELSE IF Truthy(value) THEN << <<key, value>> >> \o rest
          ELSE rest

AliOrderedData(d) == AliOrderedLoop(d, Sorted(Keys(d)))

\* WxPay._ordered_data: the loop over the sorted keys
RECURSIVE WxOrderedLoop(_, _)
WxOrderedLoop(d, ks) ==
  IF ks = <<>> THEN <<>>
  ELSE LET key == Head(ks)
           value == Get(d, key)
           rest == WxOrderedLoop(d, Tail(ks))
       IN IF value.t = "bytes" THEN << <<key, StrV(value.s)>> >> \o rest
          ELSE IF Truthy(value) THEN << <<key, value>> >> \o rest
          ELSE rest

WxOrderedData(d) == WxOrderedLoop(d, Sorted(Keys(d)))

\* "&".join("{}={}".format(k, v) for k, v in items)
KeyValueList(items) ==
  [i \in 1..Len(items) |-> items[i][1] \o <<"=">> \o Format(items[i][2])]

JoinItems(items) == Join(<<"&">>, KeyValueList(items))

(***************************************************************************)
(* WxPay.dict_to_xml                                                       *)
(***************************************************************************)
XmlRow(key, value) ==
  <<"<">> \o key \o <<">">>
  \o (IF value.t = "bytes" THEN value.s ELSE Format(value))
  \o <<"<", "/">> \o key \o <<">">>

RECURSIVE XmlRowsMut(_)
XmlRowsMut(d) ==
  IF d = <<>> THEN <<>>
  ELSE IF ~Truthy(d[1][2]) THEN XmlRowsMut(Tail(d))
  ELSE XmlRow(d[1][1], d[1][2]) \o XmlRowsMut(Tail(d))

RECURSIVE XmlRows(_)
XmlRows(d) ==
  IF d = <<>> THEN <<>>
  ELSE IF ~Truthy(d[1][2]) THEN <<>>
  ELSE XmlRow(d[1][1], d[1][2]) \o XmlRows(Tail(d))

DictToXml(d) ==
  <<"<", "x", "m", "l", ">">> \o XmlRows(d) \o <<"<", "/", "x", "m", "l", ">">>

(***************************************************************************)
(* Return values: one record shape for every operation.                    *)
(***************************************************************************)
NoRet == [kind |-> "none", b |-> FALSE, text |-> <<>>, pairs |-> <<>>]

RetBool(b) == [kind |-> "bool", b |-> b, text |-> <<>>, pairs |-> <<>>]

RetText(s) == [kind |-> "text", b |-> FALSE, text |-> s, pairs |-> <<>>]

RetPairs(p) == [kind |-> "pairs", b |-> FALSE, text |-> <<>>, pairs |-> p]

Raised == [kind |-> "raise", b |-> FALSE, text |-> <<>>, pairs |-> <<>>]

(***************************************************************************)
(* Inputs: the parameter mappings a caller can hold.                       *)
(***************************************************************************)
FieldKeys == {<<"a">>, <<"B">>, <<"c">>}

FieldValues ==
  {StrV(<<>>), StrV(<<"x">>), IntV(<<"0">>), IntV(<<"1">>), NoneV,
   BytesV(<<>>), BytesV(<<"y">>), DictV(<<>>),
   DictV(<< <<(<<"k">>), StrV(<<"v">>)>> >>), ListV}

RECURSIVE MappingsOfLen(_, _, _)
MappingsOfLen(n, ks, vs) ==
  IF n = 0 THEN {<<>>}
  ELSE {Append(m, <<k, v>>) :
          m \in MappingsOfLen(n - 1, ks, vs), k \in ks, v \in vs}

UniqueKeys(d) == \A i, j \in 1..Len(d) : d[i][1] = d[j][1] => i = j

MappingsUpTo(n, ks, vs) ==
  UNION {{m \in MappingsOfLen(i, ks, vs) : UniqueKeys(m)} : i \in 0..n}

Mappings == MappingsUpTo(MaxFields, FieldKeys, FieldValues)

(***************************************************************************)
(* Gateway configuration and construction.                                 *)
(***************************************************************************)
kSign == <<"s", "i", "g", "n">>

kKey == <<"k", "e", "y">>

kSignType == <<"s", "i", "g", "n", "_", "t", "y", "p", "e">>

kAuthAppId == <<"a", "u", "t", "h", "_", "a", "p", "p", "_", "i", "d">>

kTradeStatus == <<"t", "r", "a", "d", "e", "_", "s", "t", "a", "t", "u", "s">>

TRADE_SUCCESS == <<"T","R","A","D","E","_","S","U","C","C","E","S","S">>

TRADE_FINISHED == <<"T","R","A","D","E","_","F","I","N","I","S","H","E","D">>

TRADE_CLOSED == <<"T","R","A","D","E","_","C","L","O","S","E","D">>

\* a debug option is absent from pay_config, False or True
DebugFlags == {"absent", "False", "True"}

PayConfig(aliDebug, wxDebug) ==
  [ALIPAY_APP_ID |-> <<"1">>,
   ALIPAY_SIGN_TYPE |-> <<"R", "S", "A", "2">>,
   ALIPAY_DEBUG |-> aliDebug,
   ALIPAY_GATEWAY |-> "https://openapi.alipay.com/gateway.do",
   ALIPAY_DEBUG_GATEWAY |-> "https://openapi.alipaydev.com/gateway.do",
   ALIPAY_PUBLIC_KEY |-> "alipay_public_key.pem",
   ALIPAY_APP_PRIVATE_KEY |-> "app_private_key.pem",
   WX_MCH_KEY |-> <<"s", "1">>,
   WXPAY_DEBUG |-> wxDebug,
   WX_GATEWAY |-> "https://api.mch.weixin.qq.com/pay",
   WX_DEBUG_GATEWAY |-> "https://api.mch.weixin.qq.com/sandboxnew/pay"]

\* pay_config.get(flag, False) as a condition
FlagSet(flag) == flag = "True"

\* AliPay.__init__
AliPayInit(cfg) ==
  [appid |-> cfg.ALIPAY_APP_ID,
   sign_type |-> cfg.ALIPAY_SIGN_TYPE,
   gateway |-> IF FlagSet(cfg.ALIPAY_DEBUG) THEN cfg.ALIPAY_DEBUG_GATEWAY
               ELSE cfg.ALIPAY_GATEWAY,
   alipay_public_key |-> cfg.ALIPAY_PUBLIC_KEY,
   app_private_key |-> cfg.ALIPAY_APP_PRIVATE_KEY]

\* WxPay.__init__
WxPayInit(cfg) ==
  [mch_key |-> cfg.WX_MCH_KEY,
   gateway |-> IF FlagSet(cfg.WXPAY_DEBUG) THEN cfg.WX_GATEWAY
               ELSE cfg.WX_DEBUG_GATEWAY]

(***************************************************************************)
(* Cryptographic primitives (external libraries).  A digest or signature   *)
(* is a text of one element that spells out its key and message: two are   *)
(* equal exactly when key and message are equal.                           *)
(***************************************************************************)
RECURSIVE Flatten(_)
Flatten(s) == IF s = <<>> THEN "" ELSE Head(s) \o Flatten(Tail(s))

\* an element of a text that stands for a whole digest or signature
IsDigest(c) == Len(c) > 1

\* hmac.new(key, msg, sha256).hexdigest().upper()
HmacSha256Hex(key, msg) ==
  <<"HMAC-SHA256(" \o Flatten(key) \o "," \o Flatten(msg) \o ")">>

\* encodebytes(PKCS1_v1_5.new(key).sign(SHA256.new(msg))), newlines removed
RsaSignB64(keypair, msg) ==
  <<"RSA-SHA256(" \o keypair \o "," \o Flatten(msg) \o ")">>

\* the key pair a readable key file holds; "" when the file cannot be read
KeyPairOf(path) ==
  CASE path = "alipay_public_key.pem" -> "alipay"
    [] path = "app_private_key.pem" -> "app"
    [] OTHER -> ""

Base64Alphabet == {Lower[i] : i \in 1..26} \cup {Upper[i] : i \in 1..26}
                  \cup {Digits[i] : i \in 1..10} \cup {"+", "/"}

\* decodebytes(text) succeeds: characters outside the alphabet are dropped,
\* the data characters left must come in groups of four (a signature
\* element is well-formed base64)
Base64Decodes(text) ==
  Cardinality({i \in 1..Len(text) : text[i] \in Base64Alphabet}) % 4 = 0

(***************************************************************************)
(* WxPay._sign and WxPay.verify.  Each returns [ret, data, calls]: the     *)
(* value returned, the caller's mapping after the call, the steps taken.   *)
(***************************************************************************)
WxSignedString(self, d) ==
  JoinItems(WxOrderedData(d)) \o <<"&">> \o kKey \o <<"=">> \o self.mch_key

WxSignPopMut(d) == d

WxSignPop(d) == Pop(d, kKey)

WxSign(self, d) ==
  LET d1 == WxSignPop(d)
  IN [ret |-> RetText(HmacSha256Hex(self.mch_key, WxSignedString(self, d1))),
      data |-> d1,
      calls |-> {"_ordered_data", "hmac"}]

WxVerify(self, d) ==
  LET signature == Get(d, kSign)
      d1 == Pop(d, kSign)
  IN IF d1 = <<>> \/ ~Truthy(signature)
       THEN [ret |-> RetBool(FALSE), data |-> d1, calls |-> {}]
       ELSE LET signed == WxSign(self, d1)
            IN [ret |-> RetBool(signature.t = "str"
                                /\ signature.s = signed.ret.text),
                data |-> signed.data,
                calls |-> signed.calls \cup {"_sign"}]

(***************************************************************************)
(* AliPay._verify, AliPay.verify, AliPay._sign, AliPay._sign_data          *)
(***************************************************************************)
\* AliPay._verify(raw_content, signature): signature is a value or None
AliVerifyInner(self, raw_content, signature) ==
  IF raw_content = <<>> \/ ~Truthy(signature)
    THEN [ret |-> RetBool(FALSE), calls |-> {"_verify"}]
  ELSE IF KeyPairOf(self.alipay_public_key) = ""
    THEN [ret |-> Raised, calls |-> {"_verify", "load_key"}]
  ELSE IF signature.t \notin {"str", "bytes"} \/ ~Base64Decodes(signature.s)
    THEN [ret |-> Raised, calls |-> {"_verify", "load_key", "decodebytes"}]
  ELSE [ret |-> RetBool(signature.s =
                   RsaSignB64(KeyPairOf(self.alipay_public_key), raw_content)),
        calls |-> {"_verify", "load_key", "decodebytes", "signer.verify"}]

InTradeOk(v) == v = StrV(TRADE_SUCCESS) \/ v = StrV(TRADE_FINISHED)

\* AliPay.verify(data)
AliVerify(self, d) ==
  LET signature == Get(d, kSign)
      sign_type == Get(Pop(d, kSign), kSignType)
      d1 == Pop(Pop(d, kSign), kSignType)
  IN IF sign_type # StrV(self.sign_type)
        \/ Get(d1, kAuthAppId) # StrV(self.appid)
       THEN [ret |-> RetBool(FALSE), data |-> d1, calls |-> {}]
     ELSE IF ~InTradeOk(Get(d1, kTradeStatus))
       THEN [ret |-> RetBool(FALSE), data |-> d1, calls |-> {}]
     ELSE LET v == AliVerifyInner(self, JoinItems(AliOrderedData(d1)), signature)
          IN [ret |-> v.ret, data |-> d1,
              calls |-> v.calls \cup {"_ordered_data"}]

HexDigits == <<"0","1","2","3","4","5","6","7","8","9","A","B","C","D","E","F">>

QuoteSafe(c) ==
  InSeq(c, Lower) \/ InSeq(c, Upper) \/ InSeq(c, Digits)
  \/ c \in {"_", ".", "-", "~", "/"}

\* requests.utils.quote(text); a signature element becomes its escaped form
RECURSIVE Quote(_)
Quote(s) ==
  IF s = <<>> THEN <<>>
  ELSE (IF IsDigest(Head(s)) THEN <<"quote(" \o Head(s) \o ")">>
        ELSE IF QuoteSafe(Head(s)) THEN <<Head(s)>>
        ELSE <<"%", HexDigits[(Ord(Head(s)) \div 16) + 1],
               HexDigits[(Ord(Head(s)) % 16) + 1]>>)
       \o Quote(Tail(s))

\* AliPay._sign(unsigned_string)
AliSign(self, unsigned_string) ==
  RsaSignB64(KeyPairOf(self.app_private_key), unsigned_string)

\* AliPay._sign_data(data); quote() raises on a value that is not text
AliSignData(self, d) ==
  LET d1 == Pop(d, kSign)
      items == AliOrderedData(d1)
      quoted == [i \in 1..Len(items) |->
                   items[i][1] \o <<"=">> \o Quote(items[i][2].s)]
  IN IF \E i \in 1..Len(items) : items[i][2].t # "str"
       THEN [ret |-> Raised, data |-> d1, calls |-> {"_ordered_data"}]
       ELSE [ret |-> RetText(Join(<<"&">>, quoted) \o <<"&">> \o kSign
                             \o <<"=">> \o Quote(AliSign(self, JoinItems(items)))),
             data |-> d1,
             calls |-> {"_ordered_data", "_sign", "load_key"}]

(***************************************************************************)
(* AliPay._get_string_to_be_signed.  Indices are Python's: 0-based, -1     *)
(* for "not found".                                                        *)
(***************************************************************************)
\* text.find(sub, start)
Find(text, sub, start) ==
  LET from == IF start < 0
                THEN (IF Len(text) + start < 0 THEN 0 ELSE Len(text) + start)
                ELSE start
      hits == {i \in from..(Len(text) - Len(sub)) :
                 SubSeq(text, i + 1, i + Len(sub)) = sub}
  IN IF hits = {} THEN -1
     ELSE CHOOSE i \in hits : \A j \in hits : i <= j

\* text[a:b]
Slice(text, a, b) ==
  LET norm(i) == IF i < 0
                   THEN (IF Len(text) + i < 0 THEN 0 ELSE Len(text) + i)
                   ELSE (IF i > Len(text) THEN Len(text) ELSE i)
  IN SubSeq(text, norm(a) + 1, norm(b))

\* the loop over enumerate(raw_string[start + 1:], start + 1), from _index
\* on: the value of end when the loop is left
RECURSIVE ScanEndMut(_, _, _, _)
ScanEndMut(raw_string, start, index, balance) ==
  IF index >= Len(raw_string) THEN start
  ELSE IF raw_string[index + 1] = "}" THEN index + 1
  ELSE ScanEndMut(raw_string, start, index + 1, balance)

RECURSIVE ScanEnd(_, _, _, _)
ScanEnd(raw_string, start, index, balance) ==
  IF index >= Len(raw_string) THEN start
  ELSE LET char == raw_string[index + 1]
       IN IF char = "{" THEN ScanEnd(raw_string, start, index + 1, balance + 1)
          ELSE IF char = "}"
            THEN (IF balance = 0 THEN index + 1
                  ELSE ScanEnd(raw_string, start, index + 1, balance - 1))
          ELSE ScanEnd(raw_string, start, index + 1, balance)

GetStringToBeSigned(raw_string, response_type) ==
  LET start == Find(raw_string, <<"{">>, Find(raw_string, response_type, 0))
      end == ScanEnd(raw_string, start, start + 1, 0)
  IN Slice(raw_string, start, end)

(***************************************************************************)
(* AliPay._verify_sync_response                                            *)
(***************************************************************************)
kResponse == <<"r">>

ResponseObjects ==
  {DictV(status \o nested) :
     status \in {<<>>} \cup {<< <<kTradeStatus, StrV(st)>> >> :
                               st \in {TRADE_SUCCESS, TRADE_FINISHED,
                                       TRADE_CLOSED}},
     nested \in {<<>>,
                 << <<(<<"n">>), DictV(<< <<(<<"m">>), DictV(<<>>)>> >>)>> >>}}
  \cup
  {DictV(<< <<(<<"n">>), DictV(<<>>)>>, <<kTradeStatus, StrV(st)>> >>) :
     st \in {TRADE_SUCCESS, TRADE_CLOSED}}

\* the signatures a response can carry for a response value v
ResponseSigns(v) ==
  {StrV(<<>>), StrV(<<"a">>), StrV(<<"a", "b", "c", "d">>), IntV(<<"1">>),
   StrV(RsaSignB64("alipay", JsonDumps(v)))}

\* the JSON documents a response body can hold
SyncDocs ==
  {DictV(<<>>), ListV, StrV(<<"x">>)}
  \cup {DictV(<< <<kResponse, v>> >>) :
          v \in ResponseObjects \cup {StrV(<<"x">>)}}
  \cup {DictV(<< <<kSign, sg>> >>) : sg \in ResponseSigns(NoneV)}
  \cup UNION {UNION {{DictV(<< <<kResponse, v>>, <<kSign, sg>> >>),
                      DictV(<< <<kSign, sg>>, <<kResponse, v>> >>)} :
                       sg \in ResponseSigns(v)} :
                v \in ResponseObjects \cup {StrV(<<"x">>)}}

SyncRaws == {JsonDumps(doc) : doc \in SyncDocs} \cup {<<"x">>}

\* json.loads(text): the document, or "error" for a text that is not JSON
JsonLoads(text) ==
  IF \E doc \in SyncDocs : JsonDumps(doc) = text
    THEN [ok |-> TRUE, doc |-> CHOOSE doc \in SyncDocs : JsonDumps(doc) = text]
    ELSE [ok |-> FALSE, doc |-> DictV(<<>>)]

\* AliPay._verify_sync_response(raw_string, response_type)
AliVerifySyncResponse(self, raw_string, response_type) ==
  LET response == JsonLoads(raw_string).doc
      sign == Get(response.items, kSign)
      result == Get(response.items, response_type)
  IN IF response.t # "dict" THEN [ret |-> Raised, calls |-> {}]
     ELSE IF ~Truthy(sign) THEN [ret |-> RetBool(FALSE), calls |-> {}]
     ELSE IF result.t # "dict" THEN [ret |-> Raised, calls |-> {}]
     ELSE IF ~InTradeOk(Get(result.items, kTradeStatus))
       THEN [ret |-> RetBool(FALSE), calls |-> {}]
     ELSE LET v == AliVerifyInner(
                     self, GetStringToBeSigned(raw_string, response_type), sign)
          IN [ret |-> v.ret,
              calls |-> v.calls \cup {"_get_string_to_be_signed"}]

(***************************************************************************)
(* security.py: encrypt_string and decrypt_string.  AES (external) is a    *)
(* keyed bijection on 16-byte blocks, applied block by block (ECB); it     *)
(* refuses data that is not a whole number of blocks and keys that are     *)
(* not 16, 24 or 32 bytes long.                                            *)
(***************************************************************************)
Repeat(c, n) == [i \in 1..n |-> c]

\* text.rjust(width)
RJust(text, width) ==
  IF Len(text) >= width THEN text
  ELSE Repeat(" ", width - Len(text)) \o text

\* text.encode('utf-8')
RECURSIVE Utf8Encode(_)
Utf8Encode(text) ==
  IF text = <<>> THEN <<>>
  ELSE (IF Ord(Head(text)) < 128 THEN <<Ord(Head(text))>>
        ELSE <<192 + (Ord(Head(text)) \div 64), 128 + (Ord(Head(text)) % 64)>>)
       \o Utf8Encode(Tail(text))

AsciiChars ==
  {Lower[i] : i \in 1..26} \cup {Upper[i] : i \in 1..26}
  \cup {Digits[i] : i \in 1..10}
  \cup {"\t", " ", "\"", "#", "&", "'", "+", ",", "-", ".", "/", ":", "<",
        "=", ">", "_", "{", "}", "~"}

\* the character of a code point; one outside the model's alphabet is
\* named by its number
Chr(n) ==
  IF \E c \in AsciiChars \cup {"é"} : Ord(c) = n
    THEN CHOOSE c \in AsciiChars \cup {"é"} : Ord(c) = n
    ELSE "\\x" \o ToString(n)

\* the bytes are well-formed utf-8 of code points below 2048
Utf8Valid(bytes) ==
  \A i \in 1..Len(bytes) :
    \/ bytes[i] < 128
    \/ bytes[i] \in 194..223 /\ i < Len(bytes) /\ bytes[i + 1] \in 128..191
    \/ bytes[i] \in 128..191 /\ i > 1 /\ bytes[i - 1] \in 194..223

RECURSIVE Utf8Chars(_)
Utf8Chars(bytes) ==
  IF bytes = <<>> THEN <<>>
  ELSE IF bytes[1] < 128 THEN <<Chr(bytes[1])>> \o Utf8Chars(Tail(bytes))
  ELSE <<Chr((bytes[1] - 192) * 64 + (bytes[2] - 128))>>
       \o Utf8Chars(Tail(Tail(bytes)))

\* bytes.decode('utf-8'): [ok, text]; ok is FALSE on UnicodeDecodeError
Utf8Decode(bytes) ==
  IF Utf8Valid(bytes) THEN [ok |-> TRUE, text |-> Utf8Chars(bytes)]
  ELSE [ok |-> FALSE, text |-> <<>>]

AesKeyValid(keybytes) == Len(keybytes) \in {16, 24, 32}

\* cipher.encrypt(bytes) of AES.new(key, AES.MODE_ECB), on whole blocks
AesEcbEncrypt(keybytes, bytes) ==
  [i \in 1..Len(bytes) |->
     (bytes[i] + keybytes[((i - 1) % AesBlockSize) + 1]) % 256]

\* cipher.decrypt(bytes)
AesEcbDecrypt(keybytes, bytes) ==
  [i \in 1..Len(bytes) |->
     (bytes[i] + 256 - keybytes[((i - 1) % AesBlockSize) + 1]) % 256]

Base64Chars == Upper \o Lower \o Digits \o <<"+", "/">>

\* base64.b64encode(bytes)
RECURSIVE Base64Encode(_)
Base64Encode(bytes) ==
  IF bytes = <<>> THEN <<>>
  ELSE IF Len(bytes) = 1
    THEN <<Base64Chars[(bytes[1] \div 4) + 1],
           Base64Chars[((bytes[1] % 4) * 16) + 1], "=", "=">>
  ELSE IF Len(bytes) = 2
    THEN <<Base64Chars[(bytes[1] \div 4) + 1],
           Base64Chars[((bytes[1] % 4) * 16 + (bytes[2] \div 16)) + 1],
           Base64Chars[((bytes[2] % 16) * 4) + 1], "=">>
  ELSE <<Base64Chars[(bytes[1] \div 4) + 1],
         Base64Chars[((bytes[1] % 4) * 16 + (bytes[2] \div 16)) + 1],
         Base64Chars[((bytes[2] % 16) * 4 + (bytes[3] \div 64)) + 1],
         Base64Chars[(bytes[3] % 64) + 1]>>
       \o Base64Encode(SubSeq(bytes, 4, Len(bytes)))

\* base64.b64decode(text) of a text made of whole groups of four
RECURSIVE Base64Decode(_)
Base64Decode(text) ==
  IF Len(text) < 4 THEN <<>>
  ELSE LET n(i) == IndexOf(text[i], Base64Chars) - 1
           b1 == n(1) * 4 + (n(2) \div 16)
       IN (IF text[3] = "=" THEN <<b1>>
           ELSE IF text[4] = "="
             THEN <<b1, (n(2) % 16) * 16 + (n(3) \div 4)>>
           ELSE <<b1, (n(2) % 16) * 16 + (n(3) \div 4),
                  (n(3) % 4) * 64 + n(4)>>)
          \o Base64Decode(SubSeq(text, 5, Len(text)))

Base64WellFormed(text) ==
  /\ Len(text) % 4 = 0
  /\ \A i \in 1..Len(text) :
       \/ InSeq(text[i], Base64Chars)
       \/ (text[i] = "=" /\ i > Len(text) - 2
           /\ \A j \in i..Len(text) : text[j] = "=")

Whitespace == {9, 10, 11, 12, 13, 32}

\* bytes.strip()
Strip(bytes) ==
  LET keep == {i \in 1..Len(bytes) : bytes[i] \notin Whitespace}
  IN IF keep = {} THEN <<>>
     ELSE SubSeq(bytes, CHOOSE i \in keep : \A j \in keep : i <= j,
                 CHOOSE i \in keep : \A j \in keep : i >= j)

\* encrypt_string(encrypt_str, secret_key)
EncryptString(encrypt_str, secret_key) ==
  LET bytes == Utf8Encode(RJust(encrypt_str, PadWidth))
      keybytes == Utf8Encode(secret_key)
  IN IF ~AesKeyValid(keybytes) \/ Len(bytes) % AesBlockSize # 0 THEN Raised
     ELSE RetText(Base64Encode(AesEcbEncrypt(keybytes, bytes)))

\* decrypt_string(decrypt_str, secret_key)
DecryptString(decrypt_str, secret_key) ==
  LET keybytes == Utf8Encode(secret_key)
  IN IF ~AesKeyValid(keybytes) \/ ~Base64WellFormed(decrypt_str) THEN Raised
     ELSE LET bytes == Base64Decode(decrypt_str)
          IN IF Len(bytes) % AesBlockSize # 0 THEN Raised
             ELSE LET decoded == Utf8Decode(Strip(AesEcbDecrypt(keybytes, bytes)))
                  IN IF decoded.ok THEN RetText(decoded.text) ELSE Raised

(***************************************************************************)
(* Inputs: callbacks, response bodies, plaintexts, configurations.         *)
(***************************************************************************)
DefaultConfig == PayConfig("absent", "absent")

Configs == {PayConfig(a, w) : a \in DebugFlags, w \in DebugFlags}

\* the fields of a WxPay callback other than sign
WxParams ==
  MappingsUpTo(MaxParams, {<<"a">>, <<"B">>, kKey},
               {StrV(<<>>), StrV(<<"x">>), IntV(<<"1">>)})

\* the signatures a callback with fields p can carry
WxSigns(p) ==
  {StrV(<<>>),
   StrV(HmacSha256Hex(<<"s", "1">>,
          JoinItems(WxOrderedData(Pop(p, kKey))) \o <<"&", "k", "e", "y", "=", "s", "1">>)),
   StrV(HmacSha256Hex(<<"s", "1">>,
          JoinItems(WxOrderedData(p)) \o <<"&", "k", "e", "y", "=", "s", "1">>)),
   IntV(<<"1">>),
   StrV(HmacSha256Hex(<<"s", "2">>,
          JoinItems(WxOrderedData(p)) \o <<"&", "k", "e", "y", "=", "s", "2">>))}

WxCallbacks ==
  WxParams
  \cup UNION {UNION {{Append(p, <<kSign, sg>>), <<(<<kSign, sg>>)>> \o p} :
                       sg \in WxSigns(p)} : p \in WxParams}

\* the fields of an AliPay callback other than sign and sign_type
AliParams ==
  {body \o status \o app :
     body \in {<<>>, << <<(<<"a">>), StrV(<<"x">>)>> >>},
     status \in {<<>>} \cup {<< <<kTradeStatus, StrV(st)>> >> :
                               st \in {TRADE_SUCCESS, TRADE_FINISHED,
                                       TRADE_CLOSED}},
     app \in {<<>>} \cup {<< <<kAuthAppId, StrV(id)>> >> :
                            id \in {<<"1">>, <<"2">>}}}

AliSigns(p) ==
  {StrV(<<>>), StrV(<<"a">>), StrV(<<"a", "b", "c", "d">>),
   StrV(RsaSignB64("alipay", JoinItems(AliOrderedData(p))))}

AliCallbacks ==
  UNION {{p \o st \o sg :
            st \in {<<>>} \cup {<< <<kSignType, StrV(t)>> >> :
                                  t \in {<<"R", "S", "A", "2">>, <<"R", "S", "A">>}},
            sg \in {<<>>} \cup {<< <<kSign, v>> >> : v \in AliSigns(p)}} :
           p \in AliParams}

\* the example of the XML serialization: {"a": "x", "b": "", "c": "y"}
ExampleMappings ==
  {<< <<(<<"a">>), StrV(<<"x">>)>>, <<(<<"b">>), StrV(<<>>)>>,
      <<(<<"c">>), StrV(<<"y">>)>> >>,
   << <<(<<"c">>), StrV(<<"y">>)>>, <<(<<"a">>), BytesV(<<"x">>)>>,
      <<(<<"B">>), IntV(<<"1">>)>> >>}

RawChars == {"{", "}", "r", "x"}

RECURSIVE TextsOfLen(_, _)
TextsOfLen(n, chars) ==
  IF n = 0 THEN {<<>>}
  ELSE {Append(t, c) : t \in TextsOfLen(n - 1, chars), c \in chars}

RawTexts == UNION {TextsOfLen(n, RawChars) : n \in 0..MaxRaw}

ResponseTypes == {<<"r">>, <<"r", "x">>}

Plaintexts ==
  UNION {TextsOfLen(n, {" ", "a", "\t", "é"}) : n \in 0..MaxPlain}
  \cup {Repeat("a", PadWidth - 1), Repeat("a", PadWidth)}

AesKeys == {Repeat("k", 16), Repeat("q", 16), Repeat("k", 5)}

(***************************************************************************)
(* The state machine.  A state holds the two gateway instances, the        *)
(* mapping, response body and plaintext the caller holds, and the last     *)
(* call made: its name, its arguments, what it returned and the steps it   *)
(* took.  Calls that take the mapping act on the caller's object; the      *)
(* caller passes each call the kind of input it holds.                     *)
(***************************************************************************)
InitState(kind, cfg, d, body, text) ==
  /\ pay_config = cfg
  /\ ali = AliPayInit(cfg)
  /\ wx = WxPayInit(cfg)
  /\ holds = kind
  /\ data = d
  /\ raw = body
  /\ plain = text
  /\ op = "init"
  /\ arg = <<>>
  /\ ret = NoRet
  /\ calls = {}

\* a caller holding a parameter mapping
InitCanon ==
  \E d \in Mappings \cup ExampleMappings :
    InitState("mapping", DefaultConfig, d, <<>>, <<>>)

\* a caller holding a WxPay callback, the gateway built from any configuration
InitWx ==
  \/ \E cfg \in Configs : InitState("callback", cfg, <<>>, <<>>, <<>>)
  \/ \E d \in WxCallbacks : InitState("callback", DefaultConfig, d, <<>>, <<>>)

\* a caller holding an AliPay callback or an AliPay response body
InitAli ==
  \/ \E cfg \in Configs : InitState("alipay", cfg, <<>>, <<>>, <<>>)
  \/ \E d \in AliCallbacks : InitState("alipay", DefaultConfig, d, <<>>, <<>>)
  \/ \E body \in SyncRaws : InitState("alipay", DefaultConfig, <<>>, body, <<>>)

\* a caller holding a raw response text
InitExtract ==
  \E body \in RawTexts \cup SyncRaws :
    InitState("body", DefaultConfig, <<>>, body, <<>>)

\* a caller holding a plaintext
InitCipher ==
  \E text \in Plaintexts :
    InitState("plaintext", DefaultConfig, <<>>, <<>>, text)

Init == InitCanon \/ InitWx \/ InitAli \/ InitExtract \/ InitCipher

AliOrderedDataCall ==
  /\ holds = "mapping"
  /\ op' = "AliPay._ordered_data"
  /\ arg' = data
  /\ ret' = RetPairs(AliOrderedData(data))
  /\ calls' = {}
  /\ UNCHANGED <<pay_config, ali, wx, holds, data, raw, plain>>

WxOrderedDataCall ==
  /\ holds = "mapping"
  /\ op' = "WxPay._ordered_data"
  /\ arg' = data
  /\ ret' = RetPairs(WxOrderedData(data))
  /\ calls' = {}
  /\ UNCHANGED <<pay_config, ali, wx, holds, data, raw, plain>>

DictToXmlCall ==
  /\ holds = "mapping"
  /\ op' = "WxPay.dict_to_xml"
  /\ arg' = data
  /\ ret' = RetText(DictToXml(data))
  /\ calls' = {}
  /\ UNCHANGED <<pay_config, ali, wx, holds, data, raw, plain>>

WxSignCall ==
  LET r == WxSign(wx, data)
  IN /\ holds = "callback"
     /\ op' = "WxPay._sign"
     /\ arg' = data
     /\ ret' = r.ret
     /\ data' = r.data
     /\ calls' = r.calls
     /\ UNCHANGED <<pay_config, ali, wx, holds, raw, plain>>

WxVerifyCall ==
  LET r == WxVerify(wx, data)
  IN /\ holds = "callback"
     /\ op' = "WxPay.verify"
     /\ arg' = data
     /\ ret' = r.ret
     /\ data' = r.data
     /\ calls' = r.calls
     /\ UNCHANGED <<pay_config, ali, wx, holds, raw, plain>>

AliVerifyCall ==
  LET r == AliVerify(ali, data)
  IN /\ holds = "alipay"
     /\ op' = "AliPay.verify"
     /\ arg' = data
     /\ ret' = r.ret
     /\ data' = r.data
     /\ calls' = r.calls
     /\ UNCHANGED <<pay_config, ali, wx, holds, raw, plain>>

AliSignDataCall ==
  LET r == AliSignData(ali, data)
  IN /\ holds = "alipay"
     /\ op' = "AliPay._sign_data"
     /\ arg' = data
     /\ ret' = r.ret
     /\ data' = r.data
     /\ calls' = r.calls
     /\ UNCHANGED <<pay_config, ali, wx, holds, raw, plain>>

GetStringToBeSignedCall ==
  \E response_type \in ResponseTypes :
    /\ holds = "body"
    /\ op' = "AliPay._get_string_to_be_signed"
    /\ arg' = [raw_string |-> raw, response_type |-> response_type]
    /\ ret' = RetText(GetStringToBeSigned(raw, response_type))
    /\ calls' = {}
    /\ UNCHANGED <<pay_config, ali, wx, holds, data, raw, plain>>

AliVerifySyncResponseCall ==
  LET r == AliVerifySyncResponse(ali, raw, kResponse)
  IN /\ holds = "alipay"
     /\ op' = "AliPay._verify_sync_response"
     /\ arg' = [raw_string |-> raw, response_type |-> kResponse]
     /\ ret' = r.ret
     /\ calls' = r.calls
     /\ UNCHANGED <<pay_config, ali, wx, holds, data, raw, plain>>

EncryptStringCall ==
  \E secret_key \in AesKeys :
    /\ holds = "plaintext"
    /\ op' = "encrypt_string"
    /\ arg' = [text |-> plain, secret_key |-> secret_key]
    /\ ret' = EncryptString(plain, secret_key)
    /\ calls' = {}
    /\ UNCHANGED <<pay_config, ali, wx, holds, data, raw, plain>>

\* decrypt_string applied to what encrypt_string has just returned
DecryptStringCall ==
  /\ op = "encrypt_string"
  /\ ret.kind = "text"
  /\ \E secret_key \in AesKeys :
       /\ op' = "decrypt_string"
       /\ arg' = [text |-> ret.text, secret_key |-> secret_key,
                  plain |-> arg.text, encrypt_key |-> arg.secret_key]
       /\ ret' = DecryptString(ret.text, secret_key)
       /\ calls' = {}
       /\ UNCHANGED <<pay_config, ali, wx, holds, data, raw, plain>>

NextCanon == AliOrderedDataCall \/ WxOrderedDataCall \/ DictToXmlCall

NextWx == WxSignCall \/ WxVerifyCall

NextAli == AliVerifyCall \/ AliSignDataCall \/ AliVerifySyncResponseCall

NextExtract == GetStringToBeSignedCall

NextCipher == EncryptStringCall \/ DecryptStringCall

Next == NextCanon \/ NextWx \/ NextAli \/ NextExtract \/ NextCipher

Spec == Init /\ [][Next]_vars

SpecCanon == InitCanon /\ [][NextCanon]_vars

SpecWx == InitWx /\ [][NextWx]_vars

SpecAli == InitAli /\ [][NextAli]_vars

SpecExtract == InitExtract /\ [][NextExtract]_vars

SpecCipher == InitCipher /\ [][NextCipher]_vars

(***************************************************************************)
(* Properties.                                                             *)
(***************************************************************************)
IsOrderedCall == op \in {"AliPay._ordered_data", "WxPay._ordered_data"}

Encode(name, d) ==
  IF name = "AliPay._ordered_data" THEN AliOrderedData(d) ELSE WxOrderedData(d)

\* the mappings holding the pairs of d, in every insertion order
Reorderings(d) ==
  {[i \in 1..Len(d) |-> d[f[i]]] : f \in Permutations(1..Len(d))}

Ascending(pairs) ==
  \A i, j \in 1..Len(pairs) : i < j => StrLess(pairs[i][1], pairs[j][1])

\* C1: both _ordered_data encoders return their pairs in ascending key
\* order; a mapping with the same pairs inserted in any other order gives
\* the same pair sequence, and so does encoding the caller's mapping again.
C1_CanonicalOrder ==
  IsOrderedCall =>
    /\ Ascending(ret.pairs)
    /\ \A q \in Reorderings(arg) : Encode(op, q) = ret.pairs
    /\ Encode(op, data) = ret.pairs

C1_Witness ==
  /\ IsOrderedCall
  /\ Len(ret.pairs) >= 2
  /\ StrLess(arg[2][1], arg[1][1])
  /\ Truthy(arg[1][2])
  /\ Truthy(arg[2][2])
  /\ ret.pairs = <<arg[2], arg[1]>>

\* C2: a key whose value is "", 0, None, or an empty collection (empty
\* dict, empty list, empty bytes) has no pair in the result of either
\* _ordered_data encoder.
C2_FalsyExcluded ==
  IsOrderedCall =>
    \A i \in 1..Len(arg) :
      ~Truthy(arg[i][2]) => ~HasKey(ret.pairs, arg[i][1])

CountOf(c, text, a, b) == Cardinality({i \in a..b : text[i] = c})

\* 1-based places where sub occurs in text
Occurrences(text, sub) ==
  {i \in 1..(Len(text) - Len(sub) + 1) :
     SubSeq(text, i, i + Len(sub) - 1) = sub}

Least(S) == CHOOSE i \in S : \A j \in S : i <= j

\* the first "{" at or after the first occurrence of sub; 0 if there is none
ObjectStart(text, sub) ==
  IF Occurrences(text, sub) = {} THEN 0
  ELSE LET opens == {i \in Least(Occurrences(text, sub))..Len(text) :
                       text[i] = "{"}
       IN IF opens = {} THEN 0 ELSE Least(opens)

\* the "}" places after start that leave as many "}" as "{" since start
Closers(text, start) ==
  {e \in (start + 1)..Len(text) :
     /\ text[e] = "}"
     /\ CountOf("{", text, start, e) = CountOf("}", text, start, e)}

\* C3: when the first occurrence of response_type is followed by a "{"
\* that is closed later in the text, _get_string_to_be_signed returns
\* exactly the text from that "{" to the "}" that closes it, whatever the
\* nesting inside.
C3_BraceBalancedExtraction ==
  op = "AliPay._get_string_to_be_signed" =>
    LET start == ObjectStart(arg.raw_string, arg.response_type)
    IN (start > 0 /\ Closers(arg.raw_string, start) # {}) =>
         ret.text = SubSeq(arg.raw_string, start,
                           Least(Closers(arg.raw_string, start)))

C3_Witness ==
  /\ op = "AliPay._get_string_to_be_signed"
  /\ ObjectStart(arg.raw_string, arg.response_type) > 0
  /\ Closers(arg.raw_string,
             ObjectStart(arg.raw_string, arg.response_type)) # {}
  /\ CountOf("{", ret.text, 1, Len(ret.text)) >= 3
  /\ CountOf("}", ret.text, 1, Len(ret.text)) >= 3
  /\ CountOf("}", arg.raw_string, 1, Len(arg.raw_string)) >= 4

IsAliVerifyCall == op \in {"AliPay.verify", "AliPay._verify_sync_response"}

\* C4: AliPay.verify and AliPay._verify_sync_response (and _verify inside
\* them) return a boolean for every input and never raise.
C4_VerifyNeverRaises == IsAliVerifyCall => ret.kind = "bool"

\* the trade_status the call was given: of the callback data, or of the
\* response object of the body (None when there is none)
GivenTradeStatus ==
  IF op = "AliPay.verify" THEN Get(arg, kTradeStatus)
  ELSE LET doc == JsonLoads(arg.raw_string).doc
           result == IF doc.t = "dict" THEN Get(doc.items, arg.response_type)
                     ELSE NoneV
       IN IF result.t = "dict" THEN Get(result.items, kTradeStatus) ELSE NoneV

\* the sign the call was given (None when there is none)
GivenSign ==
  IF op = "AliPay.verify" THEN Get(arg, kSign)
  ELSE LET doc == JsonLoads(arg.raw_string).doc
       IN IF doc.t = "dict" THEN Get(doc.items, kSign) ELSE NoneV

CryptoSteps ==
  {"load_key", "decodebytes", "signer.verify", "_get_string_to_be_signed"}

\* C5: when the trade_status is not exactly TRADE_SUCCESS or
\* TRADE_FINISHED (absent included), or the sign is missing, verify (on
\* callback data) and _verify_sync_response (on a body that is a JSON
\* object) return False and no step of the cryptographic check (key
\* loading, signature decoding and verification, substring extraction) is
\* taken.
C5_TradeStatusGate ==
  (/\ IsAliVerifyCall
   /\ op = "AliPay._verify_sync_response" => JsonLoads(arg.raw_string).doc.t = "dict"
   /\ (~InTradeOk(GivenTradeStatus) \/ GivenSign = NoneV)) =>
    /\ ret = RetBool(FALSE)
    /\ calls \cap CryptoSteps = {}

XmlField(pair) ==
  <<"<">> \o pair[1] \o <<">">>
  \o (IF pair[2].t \in {"str", "bytes", "int"} THEN pair[2].s
      ELSE Repr(pair[2]))
  \o <<"<", "/">> \o pair[1] \o <<">">>

RECURSIVE Concat(_)
Concat(parts) ==
  IF parts = <<>> THEN <<>> ELSE Head(parts) \o Concat(Tail(parts))

\* C6: dict_to_xml writes <xml>, then <k>v</k> for exactly the fields
\* that come before the first falsy value, in the mapping's own order,
\* then </xml>.
C6_XmlStopsAtFirstFalsy ==
  op = "WxPay.dict_to_xml" =>
    LET falsy == {i \in 1..Len(arg) : ~Truthy(arg[i][2])}
        n == IF falsy = {} THEN Len(arg) ELSE Least(falsy) - 1
    IN ret.text = <<"<", "x", "m", "l", ">">>
                  \o Concat([i \in 1..n |-> XmlField(arg[i])])
                  \o <<"<", "/", "x", "m", "l", ">">>

C6_Witness ==
  /\ op = "WxPay.dict_to_xml"
  /\ arg = << <<(<<"a">>), StrV(<<"x">>)>>, <<(<<"b">>), StrV(<<>>)>>,
              <<(<<"c">>), StrV(<<"y">>)>> >>
  /\ ret.text = <<"<", "x", "m", "l", ">", "<", "a", ">", "x", "<", "/", "a",
                  ">", "<", "/", "x", "m", "l", ">">>

\* C7: for every plaintext shorter than 64 characters and every valid
\* key, encrypt_string succeeds and decrypt_string gives the plaintext
\* back from what it returned.
C7_CipherRoundTrip ==
  /\ (op = "encrypt_string" /\ Len(arg.text) < PadWidth
      /\ AesKeyValid(Utf8Encode(arg.secret_key))) => ret.kind = "text"
  /\ (op = "decrypt_string" /\ Len(arg.plain) < PadWidth
      /\ arg.secret_key = arg.encrypt_key) => ret = RetText(arg.plain)

\* the pairs of the truthy fields of p, in ascending key order
CanonicalPairs(p) ==
  LET kept == SelectSeq(p, LAMBDA pair : Truthy(pair[2]))
  IN CHOOSE q \in Reorderings(kept) : Ascending(q)

\* the signature of the fields p under the shared secret
SignatureOver(p, secret) ==
  HmacSha256Hex(secret,
    Join(<<"&">>, [i \in 1..Len(CanonicalPairs(p)) |->
                     CanonicalPairs(p)[i][1] \o <<"=">>
                     \o CanonicalPairs(p)[i][2].s])
    \o <<"&", "k", "e", "y", "=">> \o secret)

\* C8 as stated: WxPay.verify on P plus sign=s returns True exactly when
\* s is the signature over the canonical pairs of P, and False when sign
\* is missing or empty or no other field remains.
C8_VerifyMatchesSignOverP ==
  op = "WxPay.verify" =>
    LET s == Get(arg, kSign)
        p == Pop(arg, kSign)
    IN ret = RetBool(/\ p # <<>>
                     /\ s.t = "str"
                     /\ s.s # <<>>
                     /\ s.s = SignatureOver(p, wx.mch_key))

\* C8 amended: the signature is the one over the canonical pairs of P
\* without its 'key' field, which _sign removes before it encodes.
C8_VerifyMatchesSignWithoutKey ==
  op = "WxPay.verify" =>
    LET s == Get(arg, kSign)
        p == Pop(arg, kSign)
    IN ret = RetBool(/\ p # <<>>
                     /\ s.t = "str"
                     /\ s.s # <<>>
                     /\ s.s = SignatureOver(Pop(p, kKey), wx.mch_key))

C8_Witness ==
  /\ op = "WxPay.verify"
  /\ ret = RetBool(TRUE)
  /\ Truthy(Get(arg, kKey))
  /\ Truthy(Get(arg, <<"a">>))

PureCalls ==
  {"AliPay.verify", "WxPay.verify", "WxPay._sign", "AliPay._sign_data"}

\* C9: verify, _sign and _sign_data leave the caller's mapping as it was,
\* and a second verify right after a verify of the same mapping returns
\* what the first returned.
C9_SignVerifyPure ==
  [][/\ op' \in PureCalls => data' = data
     /\ (op' \in {"AliPay.verify", "WxPay.verify"} /\ op = op') => ret' = ret
    ]_vars

\* C10: each gateway instance built with the debug option set uses the
\* debug gateway URL, and the production URL otherwise.
C10_DebugSelectsSandbox ==
  /\ ali.gateway = IF pay_config.ALIPAY_DEBUG = "True"
                     THEN pay_config.ALIPAY_DEBUG_GATEWAY
                     ELSE pay_config.ALIPAY_GATEWAY
  /\ wx.gateway = IF pay_config.WXPAY_DEBUG = "True"
                    THEN pay_config.WX_DEBUG_GATEWAY
                    ELSE pay_config.WX_GATEWAY
=============================================================================
